---- MODULE Spec2Model ----
(***************************************************************************)
(* A model of the date-watermark tool (src/main.py): the layout            *)
(* calculator compute_position, the date resolver extract_shoot_date, the  *)
(* file enumerator iter_images and the driver main with draw_watermark.    *)
(***************************************************************************)
EXTENDS Integers, Sequences, FiniteSets, TLC

VARIABLES
    \* layout calculator
    posIn,      \* the arguments of one compute_position call
    posOut,     \* what the call produced
    \* date resolver
    dateIn,     \* the metadata of the image and the stat result of the file
    dateOut,    \* what extract_shoot_date produced
    \* the run of main
    files,      \* the regular files on disk: path -> content
    dirs,       \* the directories on disk
    args,       \* the parsed command line
    pc,         \* where main stands
    source_dir, \* main's source_dir
    output_dir, \* main's output_dir
    font,       \* main's font
    images,     \* main's images, the list made from iter_images
    idx,        \* how many elements of images the for loop has consumed
    processed,  \* main's processed
    stdout,     \* what the run has printed
    attempts,   \* history: the calls of draw_watermark of this run, in order
    startEmpty, \* history: the output directory held no file when the run began
    firstEnum,  \* history: the set the first run enumerated
    runs        \* history: whether this is the first run or a later one

layoutVars == <<posIn, posOut>>
dateVars == <<dateIn, dateOut>>
runVars == <<files, dirs, args, pc, source_dir, output_dir, font, images, idx,
             processed, stdout, attempts, startEmpty, firstEnum, runs>>
vars == <<layoutVars, dateVars, runVars>>

(***************************************************************************)
(* Bounds of the model.                                                    *)
(***************************************************************************)
MaxDim == 3      \* image width and height range over 1..MaxDim
MaxText == 4     \* text width and height range over 1..MaxText
MaxMargin == 2   \* the margin ranges over 0..MaxMargin

(***************************************************************************)
(* compute_position (src/main.py:149-164).                                 *)
(***************************************************************************)
\* the five values argparse admits for --position
Anchors == {"top-left", "top-right", "bottom-left", "bottom-right", "center"}

\* anchor names a caller could pass that are none of the five
OtherAnchors == {"middle"}

\* division rounding toward zero, as C's / does (a mutant of FloorDiv)
TruncDiv(a, b) == IF a >= 0 THEN a \div b ELSE -((-a) \div b)

\* Python's // on integers: floor division
FloorDiv(a, b) == a \div b

Coordinate(x, y) == [kind |-> "value", x |-> x, y |-> y]
Rejected == [kind |-> "rejected", x |-> 0, y |-> 0]
NotCalled == [kind |-> "none", x |-> 0, y |-> 0]

\* compute_position with the margin forgotten on the right and bottom edges
\* (a mutant of compute_position)
compute_position_nomargin(img_w, img_h, text_w, text_h, position, margin) ==
    IF position = "top-left" THEN Coordinate(margin, margin)
    ELSE IF position = "top-right" THEN Coordinate(img_w - text_w, margin)
    ELSE IF position = "bottom-left" THEN Coordinate(margin, img_h - text_h)
    ELSE IF position = "bottom-right" THEN Coordinate(img_w - text_w, img_h - text_h)
    ELSE Coordinate(FloorDiv(img_w - text_w, 2), FloorDiv(img_h - text_h, 2))

compute_position(img_w, img_h, text_w, text_h, position, margin) ==
    IF position = "top-left" THEN Coordinate(margin, margin)
    ELSE IF position = "top-right" THEN Coordinate(img_w - text_w - margin, margin)
    ELSE IF position = "bottom-left" THEN Coordinate(margin, img_h - text_h - margin)
    ELSE IF position = "bottom-right"
        THEN Coordinate(img_w - text_w - margin, img_h - text_h - margin)
    ELSE Coordinate(FloorDiv(img_w - text_w, 2), FloorDiv(img_h - text_h, 2))

(***************************************************************************)
(* extract_shoot_date (src/main.py:110-146).                               *)
(*                                                                         *)
(* A text is the record [kind, s1, s2, y, m, d, tail]: the characters      *)
(* "<y><s1><m><s2><d><tail>" where tail is "" (nothing follows the day),   *)
(* "time" (" HH:MM:SS" with a valid time of day), "badtime" (" 25:61:00")  *)
(* or "junk".  kind tells a str from a value of another type and from a    *)
(* key the dictionary does not hold.                                       *)
(***************************************************************************)
Text(s1, s2, y, m, d, tail) ==
    [kind |-> "str", s1 |-> s1, s2 |-> s2, y |-> y, m |-> m, d |-> d, tail |-> tail]

\* the key is not in the dictionary
AbsentValue ==
    [kind |-> "absent", s1 |-> "", s2 |-> "", y |-> 0, m |-> 0, d |-> 0, tail |-> ""]

\* a value that is not a str (bytes, a tuple, an int)
BytesValue ==
    [kind |-> "bytes", s1 |-> "", s2 |-> "", y |-> 0, m |-> 0, d |-> 0, tail |-> ""]

IsLeap(y) == (y % 4 = 0 /\ y % 100 # 0) \/ y % 400 = 0

DaysIn(y, m) ==
    IF m = 2 THEN (IF IsLeap(y) THEN 29 ELSE 28)
    ELSE IF m \in {4, 6, 9, 11} THEN 30
    ELSE 31

\* a format is [sep, time]: "%Y<sep>%m<sep>%d", followed by " %H:%M:%S" when time
Format(sep, time) == [sep |-> sep, time |-> time]

\* the format of the first attempt (line 124)
FirstFormat == Format(":", TRUE)

\* the formats of the second attempt, in order (lines 128-134)
OtherFormats ==
    << Format("-", TRUE), Format("/", TRUE),
       Format(":", FALSE), Format("-", FALSE), Format("/", FALSE) >>

\* datetime.strptime(dt_str, fmt) returns rather than raises
StrptimeOk(dt_str, fmt) ==
    /\ dt_str.s1 = fmt.sep
    /\ dt_str.s2 = fmt.sep
    /\ dt_str.tail = (IF fmt.time THEN "time" ELSE "")
    /\ dt_str.m \in 1..12
    /\ dt_str.d \in 1..DaysIn(dt_str.y, dt_str.m)

\* dt.strftime("%Y-%m-%d")
Strftime(y, m, d) == Text("-", "-", y, m, d, "")

Returned(text) == [kind |-> "date", text |-> text]
ReturnedNone == [kind |-> "None", text |-> AbsentValue]
DateNotCalled == [kind |-> "none", text |-> AbsentValue]

\* the loop of lines 128-139: the first format that parses wins
RECURSIVE TryFormats(_, _)
TryFormats(dt_str, fmts) ==
    IF fmts = <<>> THEN ReturnedNone
    ELSE IF StrptimeOk(dt_str, Head(fmts))
        THEN Returned(Strftime(dt_str.y, dt_str.m, dt_str.d))
    ELSE TryFormats(dt_str, Tail(fmts))

\* lines 123-139 for one tag value
ParseTag(dt_str) ==
    IF StrptimeOk(dt_str, FirstFormat)
        THEN Returned(Strftime(dt_str.y, dt_str.m, dt_str.d))
    ELSE TryFormats(dt_str, OtherFormats)

\* the tag names tried the other way round (a mutant of ShootKeys)
ShootKeysSwapped == <<"DateTime", "DateTimeOriginal">>

\* the tag names of line 119, in order
ShootKeys == <<"DateTimeOriginal", "DateTime">>

\* the tag ids an image of the model can carry
TagIds == {"0x9003", "0x0132"}

\* ExifTags.TAGS.get(tag_id, tag_id) (line 115)
TAGS(tag_id) ==
    IF tag_id = "0x9003" THEN "DateTimeOriginal"
    ELSE IF tag_id = "0x0132" THEN "DateTime"
    ELSE tag_id

\* lines 111-116: the dictionary keyed by tag name; an image without metadata
\* gives the empty dictionary
ExifDict(image) ==
    [tag \in {TAGS(id) : id \in TagIds} |->
        IF image.hasExif
            THEN LET id == CHOOSE i \in TagIds : TAGS(i) = tag IN image.tags[id]
            ELSE AbsentValue]

\* the loop of lines 119-139 over the remaining keys
RECURSIVE ResolveKeys(_, _)
ResolveKeys(exif_dict, keys) ==
    IF keys = <<>> THEN ReturnedNone
    ELSE LET key == Head(keys) IN
        IF key \in DOMAIN exif_dict /\ exif_dict[key].kind = "str"
            THEN LET r == ParseTag(exif_dict[key]) IN
                 IF r.kind = "date" THEN r ELSE ResolveKeys(exif_dict, Tail(keys))
            ELSE ResolveKeys(exif_dict, Tail(keys))

\* lines 141-146: the modification time, or None when stat raises
FallbackMtime(stat) ==
    IF stat.ok THEN Returned(Strftime(stat.y, stat.m, stat.d)) ELSE ReturnedNone

extract_shoot_date(image, stat) ==
    LET r == ResolveKeys(ExifDict(image), ShootKeys) IN
    IF r.kind = "date" THEN r ELSE FallbackMtime(stat)

Separators == {":", "-", "/", "."}

\* the texts a tag of the model can hold
Texts ==
    { Text(s1, s2, 2023, m, d, tail) :
        s1 \in Separators, s2 \in {":", "-"}, m \in {2, 7, 13}, d \in {15, 30},
        tail \in {"", "time", "junk"} }
    \cup { Text("/", "/", 2023, 7, 15, tail) : tail \in {"", "time", "badtime"} }

TagValues == {AbsentValue, BytesValue} \cup Texts

\* what fallback_path.stat() gives: the local date of st_mtime, or an error
Stats == { [ok |-> TRUE, y |-> 2024, m |-> 1, d |-> 5],
           [ok |-> FALSE, y |-> 0, m |-> 0, d |-> 0] }

\* an image whose _getexif() gives None
NoExifImage == [hasExif |-> FALSE, tags |-> [id \in TagIds |-> AbsentValue]]

Images ==
    {NoExifImage} \cup { [hasExif |-> TRUE, tags |-> t] : t \in [TagIds -> TagValues] }

IdleDateIn == [image |-> NoExifImage, stat |-> [ok |-> FALSE, y |-> 0, m |-> 0, d |-> 0]]

(***************************************************************************)
(* One call of compute_position.                                           *)
(***************************************************************************)
IdlePosIn == [W |-> 1, H |-> 1, tw |-> 1, th |-> 1, m |-> 0, position |-> "center"]

\* the run of main has not begun and never does
IdleRun ==
    /\ files = <<>> /\ dirs = {} /\ args = <<>> /\ pc = "idle"
    /\ source_dir = <<>> /\ output_dir = <<>> /\ font = "unloaded"
    /\ images = <<>> /\ idx = 0 /\ processed = 0 /\ stdout = <<>>
    /\ attempts = <<>> /\ startEmpty = FALSE /\ firstEnum = <<>> /\ runs = "none"

PositionInputs ==
    [W : 1..MaxDim, H : 1..MaxDim, tw : 1..MaxText, th : 1..MaxText,
     m : 0..MaxMargin, position : Anchors \cup OtherAnchors]

InitLayout ==
    /\ posIn \in PositionInputs
    /\ posOut = NotCalled
    /\ dateIn = IdleDateIn
    /\ dateOut = DateNotCalled
    /\ IdleRun

ComputePosition ==
    /\ posOut = NotCalled
    /\ posOut' = compute_position(posIn.W, posIn.H, posIn.tw, posIn.th,
                                  posIn.position, posIn.m)
    /\ UNCHANGED <<posIn, dateVars, runVars>>

NextLayout == ComputePosition

SpecLayout == InitLayout /\ [][NextLayout]_vars

(***************************************************************************)
(* Claims about the layout calculator.                                     *)
(***************************************************************************)
Called == posOut # NotCalled

Corners == {"top-left", "top-right", "bottom-left", "bottom-right"}

\* q is the floor of a / 2
IsFloorHalf(q, a) == 2 * q <= a /\ a < 2 * q + 2

\* C1: for each of the five anchors compute_position returns the reference
\* placement: (m, m), (W-tw-m, m), (m, H-th-m), (W-tw-m, H-th-m), and for
\* center the floors of (W-tw)/2 and (H-th)/2, also when these are negative,
\* with no margin in the center result.
C1_ReferencePlacement ==
    (Called /\ posIn.position \in Anchors) =>
        /\ posOut.kind = "value"
        /\ posIn.position \in {"top-left", "bottom-left"} => posOut.x = posIn.m
        /\ posIn.position \in {"top-right", "bottom-right"} =>
                posOut.x + posIn.tw + posIn.m = posIn.W
        /\ posIn.position \in {"top-left", "top-right"} => posOut.y = posIn.m
        /\ posIn.position \in {"bottom-left", "bottom-right"} =>
                posOut.y + posIn.th + posIn.m = posIn.H
        /\ posIn.position = "center" =>
                /\ IsFloorHalf(posOut.x, posIn.W - posIn.tw)
                /\ IsFloorHalf(posOut.y, posIn.H - posIn.th)

\* a center placement of a text wider than the image by an odd amount, with a
\* margin that is not zero
C1_Witness ==
    /\ Called
    /\ posIn.position = "center"
    /\ posIn.W - posIn.tw = -3
    /\ posIn.m > 0
    /\ posOut.x = -2

InsideShrunk ==
    /\ posIn.m <= posOut.x
    /\ posOut.x + posIn.tw <= posIn.W - posIn.m
    /\ posIn.m <= posOut.y
    /\ posOut.y + posIn.th <= posIn.H - posIn.m

\* C2 as stated: for every corner anchor, positive sizes and margin >= 0 the
\* text box lies inside the image shrunk by the margin.
C2_AlwaysInside ==
    (Called /\ posIn.position \in Corners) => InsideShrunk

Fits == posIn.tw + 2 * posIn.m <= posIn.W /\ posIn.th + 2 * posIn.m <= posIn.H

\* C2 amended: for every corner anchor the text box lies inside the image
\* shrunk by the margin whenever the text and both margins fit, that is
\* tw + 2m <= W and th + 2m <= H; otherwise the result is not clamped.
C2_InsideWhenFits ==
    (Called /\ posIn.position \in Corners /\ Fits) => InsideShrunk

\* a corner placement with a margin that is not zero where the text fits
C2_Witness ==
    /\ Called
    /\ posIn.position = "bottom-right"
    /\ posIn.m > 0
    /\ Fits
    /\ posOut.x = posIn.m

\* C3: an anchor name outside the five is rejected, never answered with a
\* coordinate.
C3_UnknownAnchorRejected ==
    (Called /\ posIn.position \notin Anchors) => posOut = Rejected

(***************************************************************************)
(* One call of extract_shoot_date.                                         *)
(***************************************************************************)
InitDate ==
    /\ dateIn \in [image : Images, stat : Stats]
    /\ dateOut = DateNotCalled
    /\ posIn = IdlePosIn
    /\ posOut = NotCalled
    /\ IdleRun

ExtractShootDate ==
    /\ dateOut = DateNotCalled
    /\ dateOut' = extract_shoot_date(dateIn.image, dateIn.stat)
    /\ UNCHANGED <<dateIn, layoutVars, runVars>>

NextDate == ExtractShootDate

SpecDate == InitDate /\ [][NextDate]_vars

(***************************************************************************)
(* Claims about the date resolver.                                         *)
(***************************************************************************)
\* the value is a string that one of the six accepted formats parses
Qualifies(v) ==
    /\ v.kind = "str"
    /\ v.s1 = v.s2
    /\ v.s1 \in {":", "-", "/"}
    /\ v.tail \in {"", "time"}
    /\ 1 <= v.m /\ v.m <= 12
    /\ 1 <= v.d /\ v.d <= DaysIn(v.y, v.m)

SameDay(text, v) ==
    /\ text.kind = "str" /\ text.s1 = "-" /\ text.s2 = "-" /\ text.tail = ""
    /\ text.y = v.y /\ text.m = v.m /\ text.d = v.d

TagOriginal == dateIn.image.tags["0x9003"]
TagDateTime == dateIn.image.tags["0x0132"]

\* C4: the date is that of DateTimeOriginal when it is a string an accepted
\* format parses, else that of DateTime when it is one, else (tags missing,
\* not strings, unparseable, or no metadata) the date of the modification
\* time, and None only when the modification time cannot be read.
C4_OrderedChain ==
    dateOut # DateNotCalled =>
        IF dateIn.image.hasExif /\ Qualifies(TagOriginal)
            THEN dateOut.kind = "date" /\ SameDay(dateOut.text, TagOriginal)
        ELSE IF dateIn.image.hasExif /\ Qualifies(TagDateTime)
            THEN dateOut.kind = "date" /\ SameDay(dateOut.text, TagDateTime)
        ELSE IF dateIn.stat.ok
            THEN dateOut.kind = "date" /\ SameDay(dateOut.text, dateIn.stat)
        ELSE dateOut = ReturnedNone

\* DateTimeOriginal is a string no format parses (the 30th of February) and
\* DateTime, a date without time under a later format, gives the result
C4_Witness ==
    /\ dateOut.kind = "date"
    /\ dateIn.image.hasExif
    /\ TagOriginal = Text(":", ":", 2023, 2, 30, "time")
    /\ TagDateTime = Text("-", "-", 2023, 7, 15, "")
    /\ dateOut.text = Text("-", "-", 2023, 7, 15, "")
    /\ dateIn.stat.ok

(***************************************************************************)
(* Paths and the file system.  A name is [stem, ext]: the characters       *)
(* "<stem>" when ext is "", "<stem>.<ext>" otherwise (stem "" is a name    *)
(* that begins with its only dot).  A path is the sequence of its names.   *)
(***************************************************************************)
N(stem, ext) == [stem |-> stem, ext |-> ext]

\* the name "_watermark" (lines 72, 81, 85)
WatermarkName == N("_watermark", "")

\* path.parent, path.name and path / name
Parent(path) == SubSeq(path, 1, Len(path) - 1)
Name(path) == path[Len(path)]
Join(path, name) == Append(path, name)

\* str.lower() on the extensions of the model
Lower(ext) ==
    IF ext = "JPG" THEN "jpg"
    ELSE IF ext = "PNG" THEN "png"
    ELSE IF ext = "Gif" THEN "gif"
    ELSE IF ext = "TXT" THEN "txt"
    ELSE ext

\* path.suffix without its dot: empty when the name has no dot or only a
\* leading one
Suffix(path) == IF Name(path).stem = "" THEN "" ELSE Name(path).ext

\* image_exts (line 78), without the dots
image_exts == {"jpg", "jpeg", "png", "bmp", "tiff", "gif", "webp"}

Exists(path) == path \in dirs \/ path \in DOMAIN files
IsFile(path) == path \in DOMAIN files

\* p lies strictly below root
Below(root, p) == Len(p) > Len(root) /\ SubSeq(p, 1, Len(root)) = root

\* p.parts: the names of the path
Parts(p) == {p[i] : i \in 1..Len(p)}

\* iter_images with the test of the directory's own name dropped and the
\* recursive test narrowed to the folder under root (a mutant of iter_images)
iter_images_lax(root, recursive) ==
    IF recursive
        THEN { p \in dirs \cup DOMAIN files :
                 /\ Below(root, p)
                 /\ IsFile(p)
                 /\ Lower(Suffix(p)) \in image_exts
                 /\ ~(p = Join(root, WatermarkName) \/ Below(Join(root, WatermarkName), p)) }
        ELSE { p \in dirs \cup DOMAIN files :
                 /\ Len(p) > 0 /\ Parent(p) = root
                 /\ IsFile(p)
                 /\ Lower(Suffix(p)) \in image_exts }

\* iter_images (lines 77-86): the paths it yields; rglob("*") gives every
\* path below root, iterdir() the direct children
iter_images(root, recursive) ==
    IF recursive
        THEN { p \in dirs \cup DOMAIN files :
                 /\ Below(root, p)
                 /\ IsFile(p)
                 /\ Lower(Suffix(p)) \in image_exts
                 /\ WatermarkName \notin Parts(p) }
        ELSE { p \in dirs \cup DOMAIN files :
                 /\ Len(p) > 0 /\ Parent(p) = root
                 /\ IsFile(p)
                 /\ Lower(Suffix(p)) \in image_exts
                 /\ Name(Parent(p)) # WatermarkName }

\* the lists list() can make of what the generator yields: rglob and iterdir
\* give the entries in an order of the operating system's choosing
Orderings(S) ==
    { s \in [1..Cardinality(S) -> S] : \A i, j \in 1..Cardinality(S) : s[i] = s[j] => i = j }

\* source_dir taken to be the path itself also for a file (a mutant of
\* SourceDirOf)
SourceDirOfSelf(path) == path

\* lines 67-70
SourceDirOf(path) == IF IsFile(path) THEN Parent(path) ELSE path

\* load_font (lines 89-107): truetypeOk tells whether the custom font loads,
\* systemFont whether one of the four candidates exists and loads
load_font(font_path, truetypeOk, systemFont) ==
    IF font_path # "None" /\ truetypeOk THEN "custom"
    ELSE IF systemFont THEN "system"
    ELSE "default"

(***************************************************************************)
(* draw_watermark (src/main.py:167-210).                                   *)
(***************************************************************************)
\* the content of a file the tool did not write
Original == [src |-> <<>>, text |-> AbsentValue, x |-> 0, y |-> 0, complete |-> TRUE]

\* the content of an output: the source it was made from, the date drawn and
\* where; complete is FALSE for what a failed save left behind
Stamped(src, text, x, y, complete) ==
    [src |-> src, text |-> text, x |-> x, y |-> y, complete |-> complete]

\* --margin's default (line 45) and --position's (line 39)
DefaultMargin == 20
DefaultPosition == "bottom-right"

\* im.size and the size of the text box textbbox measures (lines 184-187)
ImSize == [w |-> 640, h |-> 480]
TextSize == [w |-> 180, h |-> 40]

\* what the environment does to one call: whether Image.open and convert
\* succeed, the metadata and the stat result the date resolver sees, whether
\* measuring, drawing and compositing succeed, whether save succeeds and,
\* when it fails, whether it leaves a file behind
DriverImages ==
    { NoExifImage,
      [hasExif |-> TRUE,
       tags |-> [id \in TagIds |->
                    IF id = "0x9003" THEN Text(":", ":", 2023, 7, 15, "time")
                    ELSE AbsentValue]] }

\* one representative of the environments that make the call do the same
Envs ==
    { e \in [openOk : BOOLEAN, image : DriverImages, stat : Stats,
             drawOk : BOOLEAN, saveOk : BOOLEAN, partial : BOOLEAN] :
        /\ ~e.openOk => (e.image = NoExifImage /\ ~e.stat.ok)
        /\ e.image.hasExif => e.stat.ok
        /\ (~e.openOk \/ (~e.image.hasExif /\ ~e.stat.ok)) => e.drawOk
        /\ (~e.openOk \/ (~e.image.hasExif /\ ~e.stat.ok) \/ ~e.drawOk) => e.saveOk
        /\ e.saveOk => ~e.partial }

WriteFile(fs, path, content) ==
    [q \in DOMAIN fs \cup {path} |-> IF q = path THEN content ELSE fs[q]]

\* the output always named with the extension jpg (a mutant of OutPath)
OutPathJpg(out_dir, image_path) == Join(out_dir, N(Name(image_path).stem, "jpg"))

\* out_path (line 205)
OutPath(out_dir, image_path) == Join(out_dir, Name(image_path))

NoneResult(log, fs) == [result |-> <<>>, log |-> log, files |-> fs]

\* the value is the record [result, log, files]: the path returned (<<>> for
\* None), the line printed ("" for none) and the regular files afterwards
draw_watermark(image_path, out_dir, position, margin, env) ==
    IF ~env.openOk THEN NoneResult("Error processing", files)
    ELSE LET date_text == extract_shoot_date(env.image, env.stat) IN
    IF date_text.kind # "date" THEN NoneResult("Skip (no date)", files)
    ELSE IF ~env.drawOk THEN NoneResult("Error processing", files)
    ELSE LET xy == compute_position(ImSize.w, ImSize.h, TextSize.w, TextSize.h,
                                    position, margin)
             out_path == OutPath(out_dir, image_path)
         IN
    IF env.saveOk
        THEN [result |-> out_path, log |-> "",
              files |-> WriteFile(files, out_path,
                                  Stamped(image_path, date_text.text, xy.x, xy.y, TRUE))]
    ELSE NoneResult("Error processing",
                    IF env.partial
                        THEN WriteFile(files, out_path,
                                       Stamped(image_path, date_text.text, xy.x, xy.y, FALSE))
                        ELSE files)

(***************************************************************************)
(* main (src/main.py:213-241) with resolve_source_and_output (61-74).      *)
(***************************************************************************)
Photos == <<N("photos", "")>>
Sub == Join(Photos, N("sub", ""))
SubWatermark == Join(Sub, WatermarkName)

\* the regular files a file system of the model can hold before the first run
CandidateFiles ==
    { Join(Photos, N("a", "jpg")), Join(Photos, N("b", "txt")),
      Join(Photos, N("c", "PNG")), Join(Sub, N("a", "jpg")),
      Join(SubWatermark, N("d", "jpg")) }

BaseDirs == {Photos, Sub, SubWatermark}

\* the values of the positional argument
ArgPaths ==
    { Photos, Sub, SubWatermark, <<N("missing", "")>>,
      Join(Photos, N("a", "jpg")), Join(Photos, N("b", "txt")),
      Join(SubWatermark, N("d", "jpg")) }

Args ==
    [path : ArgPaths, recursive : BOOLEAN, font_path : {"None"},
     position : {DefaultPosition}, margin : {DefaultMargin}]

NothingPrinted == [error |-> FALSE, noImages |-> FALSE, found |-> <<>>, summary |-> <<>>]

\* the regular files directly in a directory
FilesIn(dir) == { p \in DOMAIN files : Parent(p) = dir }

InitRun ==
    /\ files \in { [p \in S |-> Original] : S \in SUBSET CandidateFiles }
    /\ dirs = BaseDirs
    /\ args \in Args
    /\ pc = "start"
    /\ source_dir = <<>> /\ output_dir = <<>> /\ font = "unloaded"
    /\ images = <<>> /\ idx = 0 /\ processed = 0
    /\ stdout = NothingPrinted
    /\ attempts = <<>> /\ startEmpty = FALSE
    /\ firstEnum = [done |-> FALSE, set |-> {}]
    /\ runs = "first"

Init ==
    /\ InitRun
    /\ posIn = IdlePosIn /\ posOut = NotCalled
    /\ dateIn = IdleDateIn /\ dateOut = DateNotCalled

\* the output directory made before the path is tested (a mutant of
\* ResolveSourceAndOutput)
ResolveSourceAndOutputEager ==
    /\ pc = "start"
    /\ dirs' = dirs \cup {Join(SourceDirOf(args.path), WatermarkName)}
    /\ IF ~Exists(args.path)
        THEN /\ stdout' = [stdout EXCEPT !.error = TRUE]
             /\ pc' = "exit1"
             /\ UNCHANGED <<source_dir, output_dir, startEmpty>>
        ELSE /\ source_dir' = SourceDirOf(args.path)
             /\ output_dir' = Join(source_dir', WatermarkName)
             /\ startEmpty' = (FilesIn(output_dir') = {})
             /\ pc' = "font"
             /\ UNCHANGED stdout
    /\ UNCHANGED <<files, args, font, images, idx, processed, attempts, firstEnum, runs>>
    /\ UNCHANGED <<layoutVars, dateVars>>

\* lines 215 and 61-74
ResolveSourceAndOutput ==
    /\ pc = "start"
    /\ IF ~Exists(args.path)
        THEN /\ stdout' = [stdout EXCEPT !.error = TRUE]
             /\ pc' = "exit1"
             /\ UNCHANGED <<source_dir, output_dir, dirs, startEmpty>>
        ELSE /\ source_dir' = SourceDirOf(args.path)
             /\ output_dir' = Join(source_dir', WatermarkName)
             /\ dirs' = dirs \cup {output_dir'}
             /\ startEmpty' = (FilesIn(output_dir') = {})
             /\ pc' = "font"
             /\ UNCHANGED stdout
    /\ UNCHANGED <<files, args, font, images, idx, processed, attempts, firstEnum, runs>>
    /\ UNCHANGED <<layoutVars, dateVars>>

\* line 217
LoadFont ==
    /\ pc = "font"
    /\ \E truetypeOk \in BOOLEAN, systemFont \in BOOLEAN :
        font' = load_font(args.font_path, truetypeOk, systemFont)
    /\ pc' = "enumerate"
    /\ UNCHANGED <<files, dirs, args, source_dir, output_dir, images, idx, processed,
                   stdout, attempts, startEmpty, firstEnum, runs>>
    /\ UNCHANGED <<layoutVars, dateVars>>

\* lines 219-228
Enumerate ==
    /\ pc = "enumerate"
    /\ \E order \in Orderings(iter_images(source_dir, args.recursive)) :
        /\ images' = order
        /\ IF order = <<>>
            THEN /\ stdout' = [stdout EXCEPT !.noImages = TRUE]
                 /\ pc' = "done"
            ELSE /\ stdout' = [stdout EXCEPT !.found = <<Len(order)>>]
                 /\ pc' = "loop"
        /\ firstEnum' = IF firstEnum.done THEN firstEnum
                        ELSE [done |-> TRUE, set |-> {order[i] : i \in 1..Len(order)}]
    /\ idx' = 0
    /\ processed' = 0
    /\ UNCHANGED <<files, dirs, args, source_dir, output_dir, font, attempts,
                   startEmpty, runs>>
    /\ UNCHANGED <<layoutVars, dateVars>>

\* every call counted (a mutant of Count)
CountAll(n, result) == n + 1

\* the count after one call: a path counts, None does not (lines 238-239)
Count(n, result) == IF result # <<>> THEN n + 1 ELSE n

\* one turn of the for loop (lines 229-239)
DrawWatermark ==
    /\ pc = "loop"
    /\ idx < Len(images)
    /\ \E env \in Envs :
        LET img_path == images[idx + 1]
            r == draw_watermark(img_path, output_dir, args.position, args.margin, env)
        IN /\ files' = r.files
           /\ processed' = Count(processed, r.result)
           /\ attempts' = Append(attempts, [path |-> img_path, result |-> r.result,
                                            log |-> r.log])
    /\ idx' = idx + 1
    /\ UNCHANGED <<dirs, args, pc, source_dir, output_dir, font, images, stdout,
                   startEmpty, firstEnum, runs>>
    /\ UNCHANGED <<layoutVars, dateVars>>

\* the run ending without its last line (a mutant of PrintSummary)
PrintSummarySilent ==
    /\ pc = "loop"
    /\ idx = Len(images)
    /\ pc' = "done"
    /\ UNCHANGED <<files, dirs, args, source_dir, output_dir, font, images, idx,
                   processed, stdout, attempts, startEmpty, firstEnum, runs>>
    /\ UNCHANGED <<layoutVars, dateVars>>

\* line 241
PrintSummary ==
    /\ pc = "loop"
    /\ idx = Len(images)
    /\ stdout' = [stdout EXCEPT !.summary = <<processed, Len(images)>>]
    /\ pc' = "done"
    /\ UNCHANGED <<files, dirs, args, source_dir, output_dir, font, images, idx,
                   processed, attempts, startEmpty, firstEnum, runs>>
    /\ UNCHANGED <<layoutVars, dateVars>>

\* the user starts the tool again with the same command line
NewRun ==
    /\ pc \in {"done", "exit1"}
    /\ runs' = "later"
    /\ pc' = "start"
    /\ source_dir' = <<>> /\ output_dir' = <<>> /\ font' = "unloaded"
    /\ images' = <<>> /\ idx' = 0 /\ processed' = 0
    /\ stdout' = NothingPrinted
    /\ attempts' = <<>> /\ startEmpty' = FALSE
    /\ UNCHANGED <<files, dirs, args, firstEnum>>
    /\ UNCHANGED <<layoutVars, dateVars>>

\* the steps of the program
RunStep ==
    \/ ResolveSourceAndOutput
    \/ LoadFont
    \/ Enumerate
    \/ DrawWatermark
    \/ PrintSummary

Next == RunStep \/ NewRun

Spec == Init /\ [][Next]_vars

\* the program is single-threaded and waits for nothing: a run that has a
\* next step takes it; nothing makes the user start another run
FairSpec == Spec /\ WF_vars(RunStep)

(***************************************************************************)
(* Claims about the enumerator and the run.                                *)
(***************************************************************************)
\* list(iter_images(...)) has been evaluated in this run
Enumerated == pc \in {"loop", "done"}

ImageSet == {images[i] : i \in 1..Len(images)}

\* the name ends in one of the seven extensions, in any spelling of the model
AllowedExt(p) ==
    /\ Name(p).stem # ""
    /\ Name(p).ext \in {"jpg", "JPG", "jpeg", "png", "PNG", "bmp", "tiff", "gif", "Gif", "webp"}

\* the regular files the run looks at: the children of the root, or with
\* --recursive everything below it
InScope(p) ==
    IF args.recursive THEN Below(source_dir, p) ELSE Parent(p) = source_dir

SkippedByName(p) ==
    IF args.recursive THEN \E i \in 1..Len(p) : p[i] = WatermarkName
    ELSE Name(source_dir) = WatermarkName

C6_MissingRootStopsAtOnce ==
    /\ [](pc = "exit1" =>
            /\ ~Exists(args.path)
            /\ stdout.error
            /\ font = "unloaded"
            /\ images = <<>> /\ attempts = <<>> /\ processed = 0
            /\ source_dir = <<>> /\ output_dir = <<>>
            /\ stdout.summary = <<>> /\ stdout.found = <<>> /\ ~stdout.noImages)
    /\ [][(pc = "start" /\ ~Exists(args.path)) =>
            (pc' = "exit1" /\ dirs' = dirs /\ files' = files)]_vars
    /\ [][pc = "exit1" => (dirs' = dirs /\ files' = files /\ pc' = "start")]_vars

\* the run over the path "missing" has ended
C6_Witness ==
    /\ pc = "exit1"
    /\ args.path = <<N("missing", "")>>
    /\ dirs = BaseDirs
    /\ stdout.error

\* the calls of this run that returned a path
SavedCalls == { i \in 1..Len(attempts) : attempts[i].result # <<>> }

\* C7: the loop calls draw_watermark on the elements of the list in order,
\* once each, whatever the earlier calls did; a call that fails or finds no
\* date returns None with its line printed and is not counted, a call that
\* saved its output is counted once; processed <= attempted <= total, and
\* the loop ends only when every element was attempted.
C7_EveryFileOnce ==
    /\ Len(attempts) = idx
    /\ idx <= Len(images)
    /\ \A i \in 1..Len(attempts) : attempts[i].path = images[i]
    /\ processed = Cardinality(SavedCalls)
    /\ processed <= Len(attempts)
    /\ \A i \in 1..Len(attempts) :
        IF attempts[i].result = <<>>
            THEN attempts[i].log \in {"Error processing", "Skip (no date)"}
            ELSE /\ attempts[i].log = ""
                 /\ attempts[i].result = Join(output_dir, Name(attempts[i].path))
                 /\ attempts[i].result \in DOMAIN files
    /\ (pc = "done" /\ images # <<>>) => Len(attempts) = Len(images)

\* a run over three images has ended; the first call failed, the second
\* found no date, the third saved its output
C7_Witness ==
    /\ pc = "done"
    /\ Len(images) = 3
    /\ Len(attempts) = 3
    /\ attempts[1].log = "Error processing"
    /\ attempts[2].log = "Skip (no date)"
    /\ attempts[3].result # <<>>
    /\ processed = 1

\* C8 as stated: a run whose root exists and whose enumeration succeeded has
\* printed the summary line when it ends, also when no image was found.
C8_SummaryAlways ==
    (pc = "done" /\ Enumerated) => stdout.summary # <<>>

\* the root exists and holds at least one image the enumerator yields
RunWithImages ==
    /\ pc = "start"
    /\ Exists(args.path)
    /\ iter_images(SourceDirOf(args.path), args.recursive) # {}

\* C8 amended: a run whose root exists and whose enumeration finds at least
\* one image eventually prints the summary with the count of saved outputs
\* and the length of the list; a run that finds none prints "No images
\* found to process." and ends without a summary.
C8_SummaryWhenImages ==
    /\ RunWithImages ~>
         (pc = "done" /\ images # <<>> /\ stdout.summary = <<processed, Len(images)>>)
    /\ []((pc = "done" /\ images = <<>>) => (stdout.noImages /\ stdout.summary = <<>>))

\* a run has ended with the summary 0/2: both calls failed
C8_Witness ==
    /\ pc = "done"
    /\ stdout.summary = <<0, 2>>

\* the run began with no file in the output directory, every image was
\* saved and the summary is printed
AllSaved ==
    /\ pc = "done"
    /\ startEmpty
    /\ images # <<>>
    /\ processed = Len(images)

\* C9 as stated: after such a run the output directory holds one file per
\* image under the name of its source, as many files as were processed.
C9_OneOutputPerImage ==
    AllSaved =>
        /\ {Name(p) : p \in FilesIn(output_dir)} = {Name(p) : p \in ImageSet}
        /\ Cardinality(FilesIn(output_dir)) = processed

\* the last element of the list with the name of p
LastNamed(p) ==
    images[CHOOSE i \in 1..Len(images) :
              /\ Name(images[i]) = Name(p)
              /\ \A j \in 1..Len(images) : Name(images[j]) = Name(p) => j <= i]

\* C9 amended: after such a run the summary is M/M and the output directory
\* holds exactly one file per distinct file name among the images, made from
\* the last image of that name in the list; the number of files equals the
\* processed count when the names are distinct, as they always are without
\* --recursive, and is smaller when two images share a name.
C9_OneOutputPerName ==
    AllSaved =>
        /\ stdout.summary = <<Len(images), Len(images)>>
        /\ {Name(p) : p \in FilesIn(output_dir)} = {Name(p) : p \in ImageSet}
        /\ \A p \in FilesIn(output_dir) :
              files[p].complete /\ files[p].src = LastNamed(p)
        /\ Cardinality(FilesIn(output_dir)) = Cardinality({Name(p) : p \in ImageSet})
        /\ Cardinality(FilesIn(output_dir)) <= processed
        /\ ~args.recursive => Cardinality(FilesIn(output_dir)) = processed

\* a recursive run that saved three images, two of them named a.jpg, into two
\* files
C9_Witness ==
    /\ AllSaved
    /\ args.recursive
    /\ processed = 3
    /\ Cardinality(FilesIn(output_dir)) = 2

\* the allow-listed regular files directly in a directory
ImagesIn(dir) == { p \in FilesIn(dir) : AllowedExt(p) }

====
